---- MODULE Spec2Model ----
(***************************************************************************)
(* Client-side message reconciliation of the chat screen                   *)
(* (src/app/app/(tabs)/chat.tsx, first ChatScreen of the file) together    *)
(* with the parts of the chat endpoint (src/api/chat.ts) and of the        *)
(* message store it talks to.                                              *)
(*                                                                         *)
(* Every handler of the screen runs to completion on the UI thread, so a   *)
(* handler between two awaits is one action.  The awaits are the           *)
(* suspension points: the chat lookup, the history load, the endpoint      *)
(* round trip and the backfill read.                                       *)
(*                                                                         *)
(* Abstractions: the mount effect's chat lookup reads and sets in one      *)
(* step; the endpoint serves one request at a time; a failed round trip    *)
(* either never reaches the endpoint or loses its response after the       *)
(* endpoint has finished; the change feed is a set of events that may be   *)
(* delivered in any order and any number of times while the handler that   *)
(* subscribed is registered.                                               *)
(*                                                                         *)
(* Three further machines share the module: the chat endpoint driven by    *)
(* requests with any chatId (ApiSpec), the partner-link handler with the   *)
(* link_partners function of the store (PartnerSpec), and the function     *)
(* analyzeAnger applied to the contents a model can return (AnalysisSpec). *)
(***************************************************************************)
EXTENDS Naturals, Sequences, FiniteSets

\* ------------------------------------------------------------- bounds
MaxSends == 2            \* Submit calls in one session
MaxAnalyses == 1         \* analysis updates the server performs
LongHistoryLen == 10     \* rows of the existing chat in the long-history runs
MaxCalls == 3            \* requests the endpoint stores when driven alone
Scale == 10              \* numbers of a model output have one decimal
MaxMagnitude == 8        \* numbers of a model output lie in -8..8

\* ---------------------------------------------------------- constants
BackfillLimit == 10      \* .limit(10) of the backfill query
NoChat == 0              \* chatId === null
ForeignChat == 100       \* the id of a chat of another user
MissingChat == 200       \* an id that names no chat
Caller == "caller"       \* the authenticated user of the request
OtherUser == "other"
NoUser == "nobody"
Users == {"u1", "u2", "u3"}
NoAnalysis == 0          \* analysis absent (undefined or null)

Contents == {"hello"}
ReplyText == "re"
ErrorText == "Failed to reach chatbot. Please try again."
SysText == "You are a helpful assistant."
Angers == {3}

\* ---------------------------------------------------------------- ids
\* An id is a record: "tmp" is String(Date.now()), "uuid" a store id,
\* "err" is 'err-' + Date.now(), "sys" the pinned entry's 'sys'.
MkId(k, n) == [k |-> k, n |-> n]
SysId == MkId("sys", 0)
NoId == MkId("none", 0)

\* id.includes('-'): store uuids and the 'err-...' ids hold the separator.
HasDash(id) == id.k \in {"uuid", "err"}

isTempId(id) == ~HasDash(id)

ChatMessage(id, role, content, analysis) ==
  [id |-> id, role |-> role, content |-> content, analysis |-> analysis]

SysMsg == ChatMessage(SysId, "system", SysText, NoAnalysis)

VARIABLES
  messages,      \* useState messages: the displayed list
  chatId,        \* useState chatId: the active conversation
  sending,       \* useState sending
  pendingAnalysis, \* pendingAnalysisRef.current: durable id -> anger
  channelReady,  \* channelReadyRef.current
  subChat,       \* chat id the registered change-feed handler closes over
  feed,          \* change-feed events in flight to the registered handler
  loads,         \* history loads in flight
  picked,        \* the mount effect's chat lookup has completed
  send,          \* the running send(): its position and its closure
  nSent,         \* number of send() calls so far
  srv,           \* the endpoint's handling of the current request
  rows,          \* store: table messages in created_at order
  nChats,        \* store: table chats (ids 1..nChats are the caller's)
  nAnalyses,     \* analysis updates performed
  last,          \* history variable: the last handler that ran and its path
  profiles,      \* store: table profiles, user_id -> committed partner_id
  links,         \* the POST /api/partners request of each user
  serviceRole,   \* SUPABASE_SERVICE_ROLE_KEY is configured
  completion,    \* analyzeAnger: the content the model returned
  angerAnalysis  \* analyzeAnger: the value it returned for that content

chatVars == <<messages, chatId, sending, pendingAnalysis, channelReady, subChat,
              feed, loads, picked, send, nSent, srv, rows, nChats, nAnalyses, last>>

partnerVars == <<profiles, links, serviceRole>>

analysisVars == <<completion, angerAnalysis>>

vars == <<chatVars, partnerVars, analysisVars>>

\* ------------------------------------------------------ list helpers
Ids(msgs) == {msgs[i].id : i \in DOMAIN msgs}

Min(S) == CHOOSE x \in S : \A y \in S : x <= y
Max(S) == CHOOSE x \in S : \A y \in S : x >= y

\* Array.prototype.findIndex on the id; 0 stands for -1.
findIndex(msgs, id) ==
  LET S == {i \in DOMAIN msgs : msgs[i].id = id}
  IN IF S = {} THEN 0 ELSE Min(S)

Take(s, n) == IF Len(s) <= n THEN s ELSE SubSeq(s, 1, n)

SelectChat(rs, c) == SelectSeq(rs, LAMBDA r : r.chat = c)

\* The projection select('id, role, content, analysis') mapped to ChatMessage.
RowMsg(r) == ChatMessage(r.id, r.role, r.content, r.analysis)

RowMsgs(rs) == [i \in DOMAIN rs |-> RowMsg(rs[i])]

\* ---------------------------------------------------- pending table
EmptyPending == [x \in {} |-> NoAnalysis]

PendingGet(p, id) == IF id \in DOMAIN p THEN p[id] ELSE NoAnalysis

PendingPut(p, id, a) == [x \in (DOMAIN p) \cup {id} |-> IF x = id THEN a ELSE p[x]]

PendingDel(p, id) == [x \in (DOMAIN p) \ {id} |-> p[x]]

\* ------------------------------------------------ rows and events
\* A row of table messages and a postgres_changes payload.
Row(id, c, role, content, analysis) ==
  [id |-> id, chat |-> c, role |-> role, content |-> content, analysis |-> analysis]

Event(type, row) == [type |-> type, row |-> row]

\* payload.new of an event that carries no row.
NoRow == Row(NoId, NoChat, "", "", NoAnalysis)

\* ------------------------------------------- change-feed handler
\* Result of a handler: the new list, the new pending table, the path taken.
Res(msgs, pend, path) == [msgs |-> msgs, pend |-> pend, path |-> path]

\* Mutant of UpgradeIndex: the scan runs forward and stops at the first
\* match.
UpgradeIndex_First(msgs, row) ==
  LET S == {i \in DOMAIN msgs : /\ msgs[i].role = "user"
                                /\ isTempId(msgs[i].id)
                                /\ msgs[i].content = row.content}
  IN IF S = {} THEN 0 ELSE Min(S)

\* The backward scan of the INSERT branch: the last user entry with a
\* temporary id and the row's content; 0 when there is none.
UpgradeIndex(msgs, row) ==
  LET S == {i \in DOMAIN msgs : /\ msgs[i].role = "user"
                                /\ isTempId(msgs[i].id)
                                /\ msgs[i].content = row.content}
  IN IF S = {} THEN 0 ELSE Max(S)

\* Mutant of OnInsert: the duplicate guard (prev.some(m => m.id === row.id))
\* is missing.
OnInsert_NoDedupe(msgs, pend, row) ==
  LET idx == IF row.role = "user" THEN UpgradeIndex(msgs, row) ELSE 0
  IN IF idx > 0
     THEN Res([msgs EXCEPT ![idx].id = row.id], pend, "upgrade")
     ELSE Res(Append(msgs, ChatMessage(row.id, row.role, row.content, NoAnalysis)),
              pend, "append")

\* payload.eventType === 'INSERT'
OnInsert(msgs, pend, row) ==
  IF row.id \in Ids(msgs) THEN Res(msgs, pend, "dup")
  ELSE LET idx == IF row.role = "user" THEN UpgradeIndex(msgs, row) ELSE 0
       IN IF idx > 0
          THEN LET pendingAnger == PendingGet(pend, row.id)
                   up == [msgs EXCEPT ![idx].id = row.id]
               IN IF pendingAnger # NoAnalysis
                  THEN Res([up EXCEPT ![idx].analysis = pendingAnger],
                           PendingDel(pend, row.id), "upgrade")
                  ELSE Res(up, pend, "upgrade")
          ELSE Res(Append(msgs, ChatMessage(row.id, row.role, row.content, NoAnalysis)),
                   pend, "append")

\* Mutant of FallbackIndex: the scan runs forward and stops at the first
\* match.
FallbackIndex_First(msgs, row) ==
  LET S == {i \in DOMAIN msgs : /\ msgs[i].role = "user"
                                /\ msgs[i].content = row.content
                                /\ msgs[i].analysis = NoAnalysis}
  IN IF S = {} THEN 0 ELSE Min(S)

\* The backward scan of the UPDATE branch: the last user entry with the
\* row's content and no analysis; 0 when there is none.
FallbackIndex(msgs, row) ==
  LET S == {i \in DOMAIN msgs : /\ msgs[i].role = "user"
                                /\ msgs[i].content = row.content
                                /\ msgs[i].analysis = NoAnalysis}
  IN IF S = {} THEN 0 ELSE Max(S)

\* Mutant of UpdateIndex: the lookup by id is missing, only the content
\* scan is left.
UpdateIndex_ContentOnly(msgs, row) == FallbackIndex(msgs, row)

\* The index the UPDATE branch writes to: by id first, then by content.
UpdateIndex(msgs, row) ==
  LET byId == findIndex(msgs, row.id)
  IN IF byId > 0 THEN byId ELSE FallbackIndex(msgs, row)

\* payload.eventType === 'UPDATE'
OnUpdate(msgs, pend, row) ==
  IF row.analysis = NoAnalysis THEN Res(msgs, pend, "ignored")
  ELSE LET idx == UpdateIndex(msgs, row)
       IN IF idx > 0
          THEN Res([msgs EXCEPT ![idx].id = row.id, ![idx].analysis = row.analysis],
                   pend,
                   IF findIndex(msgs, row.id) = 0 THEN "byContent"
                   ELSE IF msgs[idx].analysis = row.analysis THEN "same" ELSE "byId")
          ELSE Res(msgs, PendingPut(pend, row.id, row.analysis), "stash")

\* Mutant of OnChange: the conversation filter is missing.
OnChange_NoFilter(msgs, pend, c, ev) ==
  IF ev.type = "INSERT" THEN OnInsert(msgs, pend, ev.row)
  ELSE OnUpdate(msgs, pend, ev.row)

\* The postgres_changes callback registered for chat c.
OnChange(msgs, pend, c, ev) ==
  IF ev.row = NoRow \/ ev.row.chat # c THEN Res(msgs, pend, "filtered")
  ELSE IF ev.type = "INSERT" THEN OnInsert(msgs, pend, ev.row)
  ELSE OnUpdate(msgs, pend, ev.row)

\* --------------------------------------------------- send() helpers
\* Mutant of SwapId: the entry is removed and appended again under the
\* durable id.
SwapId_RemoveAppend(msgs, tmp, uid) ==
  LET idx == findIndex(msgs, tmp)
  IN IF idx > 0
     THEN Append(SelectSeq(msgs, LAMBDA m : m.id # tmp), [msgs[idx] EXCEPT !.id = uid])
     ELSE msgs

\* Mutant of SwapId: an upsert; when the temporary id is not found an entry
\* with the durable id is appended.
SwapId_Upsert(msgs, tmp, uid) ==
  LET idx == findIndex(msgs, tmp)
  IN IF idx > 0 THEN [msgs EXCEPT ![idx].id = uid]
     ELSE Append(msgs, ChatMessage(uid, "user", "", NoAnalysis))

\* The id swap of the response: by identity of the temporary id.
SwapId(msgs, tmp, uid) ==
  LET idx == findIndex(msgs, tmp)
  IN IF idx > 0 THEN [msgs EXCEPT ![idx].id = uid] ELSE msgs

\* "Apply any pending analysis captured before id swap"
ApplyPending(msgs, uid, anger) ==
  LET i == findIndex(msgs, uid)
  IN IF i > 0 THEN [msgs EXCEPT ![i].analysis = anger] ELSE msgs

\* Mutant of AppendAssistant: the spread is written the other way round,
\* [reply, ...prev].
AppendAssistant_Unshift(msgs, aid, reply) ==
  IF aid \in Ids(msgs) THEN msgs
  ELSE <<ChatMessage(aid, "assistant", reply, NoAnalysis)>> \o msgs

\* Mutant of AppendAssistant: the guard prev.some(m => m.id === ...) is
\* missing.
AppendAssistant_NoDedupe(msgs, aid, reply) ==
  Append(msgs, ChatMessage(aid, "assistant", reply, NoAnalysis))

\* The assistant reply, appended once.
AppendAssistant(msgs, aid, reply) ==
  IF aid \in Ids(msgs) THEN msgs
  ELSE Append(msgs, ChatMessage(aid, "assistant", reply, NoAnalysis))

\* The response handling between res.json() and the backfill query.
OnResponse(msgs, pend, tmp, data) ==
  LET m1 == IF data.userMessageId # NoId
            THEN SwapId(msgs, tmp, data.userMessageId) ELSE msgs
      pendingAnger == IF data.userMessageId # NoId
                      THEN PendingGet(pend, data.userMessageId) ELSE NoAnalysis
      m2 == IF pendingAnger # NoAnalysis
            THEN ApplyPending(m1, data.userMessageId, pendingAnger) ELSE m1
      p2 == IF pendingAnger # NoAnalysis
            THEN PendingDel(pend, data.userMessageId) ELSE pend
      m3 == IF data.assistantMessageId # NoId /\ data.hasReply
            THEN AppendAssistant(m2, data.assistantMessageId, data.reply) ELSE m2
  IN Res(m3, p2, IF data.userMessageId # NoId /\ findIndex(msgs, tmp) > 0
                 THEN "swap" ELSE data.kind)

\* Mutant of Backfill: the missing rows are put in front, [...toAdd, ...prev].
Backfill_Prepend(msgs, recent) ==
  LET toAdd == SelectSeq(RowMsgs(recent), LAMBDA m : m.id \notin Ids(msgs))
  IN IF Len(toAdd) > 0 THEN toAdd \o msgs ELSE msgs

\* The merge of the backfill rows into the list.
Backfill(msgs, recent) ==
  LET toAdd == SelectSeq(RowMsgs(recent), LAMBDA m : m.id \notin Ids(msgs))
  IN IF Len(toAdd) > 0 THEN msgs \o toAdd ELSE msgs

\* A load that puts the history alone into the list.
LoadList_NoSys(data) == RowMsgs(data)

\* The list a successful history load installs.
LoadList(data) == <<SysMsg>> \o RowMsgs(data)

\* Mutant of OnLoad: the line "if (error) return" is missing; data is null
\* on an error and (data || []) is empty.
OnLoad_NoErrorCheck(msgs, error, data) == LoadList(data)

\* Mutant of OnLoad: the history is merged behind the list instead of
\* replacing it.
OnLoad_Append(msgs, error, data) ==
  IF error THEN msgs ELSE msgs \o RowMsgs(data)

\* The load effect after its query resolved.
OnLoad(msgs, error, data) == IF error THEN msgs ELSE LoadList(data)

\* The catch branch's entry.
ErrMsg(n) == ChatMessage(MkId("err", n), "assistant", ErrorText, NoAnalysis)

\* Mutant of OnThrow: the optimistic entry is rolled back.
OnThrow_Rollback(msgs, tmp, n) ==
  Append(SelectSeq(msgs, LAMBDA m : m.id # tmp), ErrMsg(n))

\* The catch branch: setMessages(prev => [...prev, err]).
OnThrow(msgs, tmp, n) == Append(msgs, ErrMsg(n))

\* ------------------------------------------------------------ store
\* The history the user's existing chat holds at mount.
History ==
  << Row(MkId("uuid", 1), 1, "user", "earlier", NoAnalysis),
     Row(MkId("uuid", 2), 1, "assistant", ReplyText, NoAnalysis) >>

\* An existing chat that holds LongHistoryLen rows, alternately a user
\* message and its reply; the analysis of the old user messages has been
\* stored long ago.
LongHistory ==
  [i \in 1..LongHistoryLen |->
     IF i % 2 = 1
     THEN Row(MkId("uuid", i), 1, "user", "earlier", 2)
     ELSE Row(MkId("uuid", i), 1, "assistant", ReplyText, NoAnalysis)]

\* A row change reaches the client only if its channel has joined.
Emit(ev) == IF channelReady THEN feed \cup {ev} ELSE feed

\* ------------------------------------------------------ analyzeAnger
\* A JavaScript value as analyzeAnger meets it: its kind t, and for a number
\* or a numeric string its value v in units of 1 / Scale.
JV(t, v) == [t |-> t, v |-> v]
Num(n) == JV("number", n * Scale)
NaN == JV("NaN", 0)
Undefined == JV("undefined", 0)

\* The values the key "anger" of a JSON object can hold: numbers with one
\* decimal, null, booleans, strings (numeric, empty, other text), or no
\* such key.
AngerValues ==
  {JV("number", k) : k \in (0 - MaxMagnitude * Scale)..(MaxMagnitude * Scale)}
    \cup {JV("numeric string", k) : k \in {0 - Scale, 3 * Scale, 25, 9 * Scale}}
    \cup {JV(t, 0) : t \in {"undefined", "null", "true", "false",
                            "empty string", "text"}}

\* What the model returned: content that JSON.parse rejects, content that
\* parses to something that is not an object (null, a number, a string), or
\* an object with or without the key "anger".
Completions ==
  {[parses |-> FALSE, isObject |-> FALSE, anger |-> Undefined],
   [parses |-> TRUE, isObject |-> FALSE, anger |-> Undefined]}
    \cup {[parses |-> TRUE, isObject |-> TRUE, anger |-> a] : a \in AngerValues}

NoCompletion == [parses |-> FALSE, isObject |-> FALSE, anger |-> JV("none", 0)]
NoResult == JV("none", 0)

\* Number(x)
ToNumber(x) ==
  CASE x.t = "number" -> x
    [] x.t = "numeric string" -> JV("number", x.v)
    [] x.t \in {"null", "false", "empty string"} -> Num(0)
    [] x.t = "true" -> Num(1)
    [] OTHER -> NaN

\* x ?? d
Nullish(x, d) == IF x.t \in {"undefined", "null"} THEN d ELSE x

\* Math.min(a, b) and Math.max(a, b): NaN if either argument is NaN.
MathMin(a, b) ==
  IF a.t = "NaN" \/ b.t = "NaN" THEN NaN ELSE IF a.v <= b.v THEN a ELSE b

MathMax(a, b) ==
  IF a.t = "NaN" \/ b.t = "NaN" THEN NaN ELSE IF a.v >= b.v THEN a ELSE b

\* parsed?.anger
AngerOf(c) == IF c.isObject THEN c.anger ELSE Undefined

\* try { parsed = JSON.parse(content); anger = Math.max(1, Math.min(5,
\* Number(parsed?.anger ?? 1))) } catch { anger = 1 }
analyzeAnger(c) ==
  IF ~c.parses THEN Num(1)
  ELSE MathMax(Num(1), MathMin(Num(5), ToNumber(Nullish(AngerOf(c), Num(1)))))

\* ------------------------------------------------------------ state
\* A link request: its position and the partnerId of its body.
IdleLink == [pc |-> "idle", target |-> NoUser]

IdleSend == [pc |-> "idle", tmp |-> NoId, chat |-> NoChat, content |-> "",
             final |-> NoChat, recent |-> <<>>]

IdleSrv == [pc |-> "idle", chat |-> NoChat, content |-> "", out |-> NoChat,
            uid |-> NoId, aid |-> NoId, kind |-> "none"]

\* The last handler that touched the list: its name, the branch it took, the
\* id it was about and the number of entries it appended.
Last(op, path, id, n) == [op |-> op, path |-> path, id |-> id, n |-> n]

\* The state after the screen is constructed, over a store that holds the
\* rows h.
InitChat(h) ==
  /\ messages = <<SysMsg>>
  /\ chatId = NoChat
  /\ sending = FALSE
  /\ pendingAnalysis = EmptyPending
  /\ channelReady = FALSE
  /\ subChat = NoChat
  /\ feed = {}
  /\ loads = {}
  /\ picked = FALSE
  /\ send = IdleSend
  /\ nSent = 0
  /\ srv = IdleSrv
  /\ rows = h
  /\ nChats = 1
  /\ nAnalyses = 0
  /\ last = Last("init", "", NoId, 0)

\* Nobody has a partner and no link request is running.
InitPartners ==
  /\ profiles = [u \in Users |-> NoUser]
  /\ links = [u \in Users |-> IdleLink]

\* analyzeAnger has not been called.
InitAnalysis ==
  /\ completion = NoCompletion
  /\ angerAnalysis = NoResult

InitWith(h) ==
  InitChat(h) /\ InitPartners /\ serviceRole = TRUE /\ InitAnalysis

Init == InitWith(History)

\* setChatId(c) with a realtime effect that has no cleanup: the channel that
\* is already registered stays, with its handler and its events in flight.
SetChatId_KeepChannel(c) ==
  IF c = chatId
  THEN UNCHANGED <<chatId, loads, subChat, channelReady, feed>>
  ELSE /\ chatId' = c
       /\ loads' = loads \cup {[chat |-> c, stage |-> "req", data |-> <<>>]}
       /\ IF subChat = NoChat
          THEN /\ subChat' = c
               /\ channelReady' = FALSE
               /\ feed' = {}
          ELSE UNCHANGED <<subChat, channelReady, feed>>

\* setChatId(c) and the two effects keyed on chatId: the history load is
\* started, the previous channel is removed and a new one is created.
SetChatId(c) ==
  IF c = chatId
  THEN UNCHANGED <<chatId, loads, subChat, channelReady, feed>>
  ELSE /\ chatId' = c
       /\ loads' = loads \cup {[chat |-> c, stage |-> "req", data |-> <<>>]}
       /\ subChat' = c
       /\ channelReady' = FALSE
       /\ feed' = {}

\* Mount effect: pick the user's most recent chat.
PickChat ==
  /\ ~picked
  /\ picked' = TRUE
  /\ IF nChats > 0 THEN SetChatId(nChats)
     ELSE UNCHANGED <<chatId, loads, subChat, channelReady, feed>>
  /\ UNCHANGED <<partnerVars, analysisVars>>
  /\ UNCHANGED <<messages, sending, pendingAnalysis, send, nSent, srv, rows,
                 nChats, nAnalyses, last>>

\* subscribe() callback with status SUBSCRIBED.
Subscribed ==
  /\ subChat # NoChat
  /\ ~channelReady
  /\ channelReady' = TRUE
  /\ UNCHANGED <<partnerVars, analysisVars>>
  /\ UNCHANGED <<messages, chatId, sending, pendingAnalysis, subChat, feed, loads,
                 picked, send, nSent, srv, rows, nChats, nAnalyses, last>>

\* The history query reads the store.
LoadRead(l) ==
  /\ l \in loads
  /\ l.stage = "req"
  /\ loads' = (loads \ {l}) \cup
                {[l EXCEPT !.stage = "ok", !.data = SelectChat(rows, l.chat)]}
  /\ UNCHANGED <<partnerVars, analysisVars>>
  /\ UNCHANGED <<messages, chatId, sending, pendingAnalysis, channelReady, subChat,
                 feed, picked, send, nSent, srv, rows, nChats, nAnalyses, last>>

\* The history query resolves with an error: if (error) return.
LoadFail(l) ==
  /\ l \in loads
  /\ l.stage = "req"
  /\ loads' = loads \ {l}
  /\ messages' = OnLoad(messages, TRUE, <<>>)
  /\ last' = Last("LoadFail", "", NoId, 0)
  /\ UNCHANGED <<partnerVars, analysisVars>>
  /\ UNCHANGED <<chatId, sending, pendingAnalysis, channelReady, subChat,
                 feed, picked, send, nSent, srv, rows, nChats, nAnalyses>>

\* The history query resolves: setMessages([sys, ...history]).
LoadDone(l) ==
  /\ l \in loads
  /\ l.stage = "ok"
  /\ loads' = loads \ {l}
  /\ messages' = OnLoad(messages, FALSE, l.data)
  /\ last' = Last("LoadDone", "", NoId, 0)
  /\ UNCHANGED <<partnerVars, analysisVars>>
  /\ UNCHANGED <<chatId, sending, pendingAnalysis, channelReady, subChat, feed,
                 picked, send, nSent, srv, rows, nChats, nAnalyses>>

\* The change-feed delivers an event to the registered callback; the event
\* stays in flight (at-least-once, any order).
Deliver(ev) ==
  /\ ev \in feed
  /\ subChat # NoChat
  /\ LET r == OnChange(messages, pendingAnalysis, subChat, ev)
     IN /\ messages' = r.msgs
        /\ pendingAnalysis' = r.pend
        /\ last' = Last(ev.type, r.path, ev.row.id, Len(r.msgs) - Len(messages))
  /\ UNCHANGED <<partnerVars, analysisVars>>
  /\ UNCHANGED <<chatId, sending, channelReady, subChat, feed, loads, picked, send,
                 nSent, srv, rows, nChats, nAnalyses>>

\* The text of the input box: a core without surrounding whitespace (empty
\* for a blank input) between lead and trail whitespace characters.
Inputs == [lead : {0, 1}, core : Contents \cup {""}, trail : {0, 1}]

\* input.trim()
Trim(input) == input.core

\* A guard that does not look at sending.
SendGuard_IgnoreSending(input, busy) == Trim(input) # ""

\* if (!content || sending) return  -- TRUE when send() goes on.
SendGuard(input, busy) == Trim(input) # "" /\ ~busy

\* send(): the optimistic append and the request.
Submit(content) ==
  /\ nSent < MaxSends
  /\ nSent' = nSent + 1
  /\ messages' = Append(messages,
                        ChatMessage(MkId("tmp", nSent + 1), "user", content, NoAnalysis))
  /\ sending' = TRUE
  /\ send' = [IdleSend EXCEPT !.pc = "awaitResp", !.tmp = MkId("tmp", nSent + 1),
                              !.chat = chatId, !.content = content]
  /\ srv' = [IdleSrv EXCEPT !.pc = "req", !.chat = chatId, !.content = content]
  /\ last' = Last("Submit", "", MkId("tmp", nSent + 1), 1)
  /\ UNCHANGED <<partnerVars, analysisVars>>
  /\ UNCHANGED <<chatId, pendingAnalysis, channelReady, subChat, feed, loads, picked,
                 rows, nChats, nAnalyses>>

\* send() called with the input box holding input.
Send(input) ==
  IF SendGuard(input, sending) THEN Submit(Trim(input)) ELSE UNCHANGED vars

\* The JSON body the endpoint answered with.
ResponseData ==
  IF srv.kind = "ok"
  THEN [kind |-> "ok", chatId |-> srv.out, userMessageId |-> srv.uid,
        assistantMessageId |-> srv.aid, hasReply |-> TRUE, reply |-> ReplyText]
  ELSE [kind |-> "error", chatId |-> NoChat, userMessageId |-> NoId,
        assistantMessageId |-> NoId, hasReply |-> FALSE, reply |-> ""]

\* const finalChatId = chatId ?? data.chatId ?? null
FinalChatId(data) == IF send.chat # NoChat THEN send.chat ELSE data.chatId

\* The adoption test reading the conversation id of the moment the response
\* is processed instead of the one send() captured.
Adopts_Current(data) == data.chatId # NoChat /\ chatId = NoChat

\* if (data.chatId && !chatId): chatId is the one send() captured.
Adopts(data) == data.chatId # NoChat /\ send.chat = NoChat

\* send(): res.json() resolved; everything up to the backfill query.
SendResponse ==
  /\ send.pc = "awaitResp"
  /\ srv.pc = "done"
  /\ LET data == ResponseData
         r == OnResponse(messages, pendingAnalysis, send.tmp, data)
         final == FinalChatId(data)
     IN /\ messages' = r.msgs
        /\ pendingAnalysis' = r.pend
        /\ IF Adopts(data)
           THEN SetChatId(data.chatId)
           ELSE UNCHANGED <<chatId, loads, subChat, channelReady, feed>>
        /\ IF final # NoChat
           THEN /\ send' = [send EXCEPT !.pc = "backfillRead", !.final = final]
                /\ sending' = sending
           ELSE /\ send' = IdleSend
                /\ sending' = FALSE
        /\ last' = Last("SendResponse", r.path, data.userMessageId,
                        Len(r.msgs) - Len(messages))
  /\ srv' = IdleSrv
  /\ UNCHANGED <<partnerVars, analysisVars>>
  /\ UNCHANGED <<picked, nSent, rows, nChats, nAnalyses>>

\* send(): the backfill query reads the store.
BackfillRead ==
  /\ send.pc = "backfillRead"
  /\ send' = [send EXCEPT !.pc = "backfillMerge",
                          !.recent = Take(SelectChat(rows, send.final), BackfillLimit)]
  /\ UNCHANGED <<partnerVars, analysisVars>>
  /\ UNCHANGED <<messages, chatId, sending, pendingAnalysis, channelReady, subChat,
                 feed, loads, picked, nSent, srv, rows, nChats, nAnalyses, last>>

\* send(): the backfill query resolved without rows (an error result, or a
\* throw caught by the inner try); finally setSending(false).
BackfillFail ==
  /\ send.pc = "backfillRead"
  /\ send' = IdleSend
  /\ sending' = FALSE
  /\ last' = Last("BackfillFail", "", NoId, 0)
  /\ UNCHANGED <<partnerVars, analysisVars>>
  /\ UNCHANGED <<messages, chatId, pendingAnalysis, channelReady, subChat, feed,
                 loads, picked, nSent, srv, rows, nChats, nAnalyses>>

\* send(): the backfill query resolved; merge and finally setSending(false).
BackfillDone ==
  /\ send.pc = "backfillMerge"
  /\ messages' = Backfill(messages, send.recent)
  /\ send' = IdleSend
  /\ sending' = FALSE
  /\ last' = Last("BackfillDone", "", NoId, Len(messages') - Len(messages))
  /\ UNCHANGED <<partnerVars, analysisVars>>
  /\ UNCHANGED <<chatId, pendingAnalysis, channelReady, subChat, feed, loads, picked,
                 nSent, srv, rows, nChats, nAnalyses>>

\* send(): fetch or res.json() threw (the request never arrived, or the
\* response was lost after the endpoint finished); catch and finally.
SendThrow ==
  /\ send.pc = "awaitResp"
  /\ srv.pc \in {"req", "done"}
  /\ messages' = OnThrow(messages, send.tmp, nSent)
  /\ send' = IdleSend
  /\ sending' = FALSE
  /\ srv' = IdleSrv
  /\ last' = Last("SendThrow", srv.pc, NoId, 1)
  /\ UNCHANGED <<partnerVars, analysisVars>>
  /\ UNCHANGED <<chatId, pendingAnalysis, channelReady, subChat, feed, loads, picked,
                 nSent, rows, nChats, nAnalyses>>

\* ---------------------------------------------------------- endpoint
\* handler: 405 / 400 / 401 / 500 with a JSON error body.
SrvReject ==
  /\ srv.pc = "req"
  /\ srv' = [srv EXCEPT !.pc = "done", !.kind = "error"]
  /\ UNCHANGED <<partnerVars, analysisVars>>
  /\ UNCHANGED <<messages, chatId, sending, pendingAnalysis, channelReady, subChat,
                 feed, loads, picked, send, nSent, rows, nChats, nAnalyses, last>>

\* The owner of a chat id: the chats 1..nChats are the caller's, ForeignChat
\* is another user's, any other id names no chat.
ChatOwner(c) ==
  IF c \in 1..nChats THEN Caller
  ELSE IF c = ForeignChat THEN OtherUser
  ELSE NoUser

\* A chat check that only asks whether the chat exists.
Owned_Exists(c, lookupOk) == c # NoChat /\ lookupOk /\ ChatOwner(c) # NoUser

\* if (chatId) { select id,user_id ...; if (cErr || !c || c.user_id !==
\* userId) chatId = null }: the supplied id is kept only if the lookup
\* succeeded and returned a chat of the caller.
Owned(c, lookupOk) == c # NoChat /\ lookupOk /\ ChatOwner(c) = Caller

\* handler: "Ensure a chat exists for this user" and "Insert user message".
\* lookupOk is the outcome of the chat lookup (no error, row returned).
SrvStoreUser ==
  /\ srv.pc = "req"
  /\ \E lookupOk \in BOOLEAN :
       LET owned == Owned(srv.chat, lookupOk)
           c == IF owned THEN srv.chat ELSE nChats + 1
           uid == MkId("uuid", Len(rows) + 1)
           row == Row(uid, c, "user", srv.content, NoAnalysis)
       IN /\ nChats' = IF owned THEN nChats ELSE nChats + 1
          /\ rows' = Append(rows, row)
          /\ feed' = Emit(Event("INSERT", row))
          /\ srv' = [srv EXCEPT !.pc = "stored", !.out = c, !.uid = uid]
  /\ UNCHANGED <<partnerVars, analysisVars>>
  /\ UNCHANGED <<messages, chatId, sending, pendingAnalysis, channelReady, subChat,
                 loads, picked, send, nSent, nAnalyses, last>>

\* handler: "Insert assistant message" and the 200 response.
SrvReply ==
  /\ srv.pc = "stored"
  /\ LET aid == MkId("uuid", Len(rows) + 1)
         row == Row(aid, srv.out, "assistant", ReplyText, NoAnalysis)
     IN /\ rows' = Append(rows, row)
        /\ feed' = Emit(Event("INSERT", row))
        /\ srv' = [srv EXCEPT !.pc = "done", !.kind = "ok", !.aid = aid]
  /\ UNCHANGED <<partnerVars, analysisVars>>
  /\ UNCHANGED <<messages, chatId, sending, pendingAnalysis, channelReady, subChat,
                 loads, picked, send, nSent, nChats, nAnalyses, last>>

\* handler: the fire-and-forget analysis updates the user row.
SrvAnalyze(i, anger) ==
  /\ i \in DOMAIN rows
  /\ rows[i].role = "user"
  /\ rows[i].analysis = NoAnalysis
  /\ nAnalyses < MaxAnalyses
  /\ nAnalyses' = nAnalyses + 1
  /\ rows' = [rows EXCEPT ![i].analysis = anger]
  /\ feed' = Emit(Event("UPDATE", rows'[i]))
  /\ UNCHANGED <<partnerVars, analysisVars>>
  /\ UNCHANGED <<messages, chatId, sending, pendingAnalysis, channelReady, subChat,
                 loads, picked, send, nSent, srv, nChats, last>>

\* Every step but the loss of a request or of its response.
Steps ==
  \/ PickChat
  \/ Subscribed
  \/ \E l \in loads : LoadRead(l)
  \/ \E l \in loads : LoadFail(l)
  \/ \E l \in loads : LoadDone(l)
  \/ \E ev \in feed : Deliver(ev)
  \/ \E input \in Inputs : Send(input)
  \/ SendResponse
  \/ BackfillRead
  \/ BackfillFail
  \/ BackfillDone
  \/ SrvReject
  \/ SrvStoreUser
  \/ SrvReply
  \/ \E i \in DOMAIN rows, a \in Angers : SrvAnalyze(i, a)

Next == Steps \/ SendThrow

Spec == Init /\ [][Next]_vars

\* The same screen over a chat that already holds LongHistoryLen rows.
InitLong == InitWith(LongHistory)

SpecLong == InitLong /\ [][Next]_vars

\* Scheduling: the endpoint answers, the client processes the response it
\* received, the store answers the reads, the channel joins and the feed
\* delivers.  Nothing forces the user to submit, a request to fail or a
\* read to return an error.
Fairness ==
  /\ WF_vars(PickChat)
  /\ WF_vars(Subscribed)
  /\ WF_vars(\E l \in loads : LoadRead(l))
  /\ WF_vars(\E l \in loads : LoadDone(l))
  /\ WF_vars(\E ev \in feed :
               Deliver(ev) /\ <<messages, pendingAnalysis>>' # <<messages, pendingAnalysis>>)
  /\ WF_vars(SendResponse)
  /\ WF_vars(BackfillRead)
  /\ WF_vars(BackfillDone)
  /\ WF_vars(SrvReject \/ SrvStoreUser)
  /\ WF_vars(SrvReply)

\* The runs in which every request is answered, under that scheduling.
FairSpec == Init /\ [][Steps]_vars /\ Fairness

\* The steps of send() and of the endpoint, with the mount lookup that
\* decides the chatId send() captures: the steps that read or write sending.
SendSteps ==
  \/ PickChat
  \/ \E input \in Inputs : Send(input)
  \/ SendResponse
  \/ BackfillRead
  \/ BackfillFail
  \/ BackfillDone
  \/ SendThrow
  \/ SrvReject
  \/ SrvStoreUser
  \/ SrvReply

\* The endpoint answers unless the request is lost, send() goes on when its
\* await resolves, and the backfill read returns.
SendFairness ==
  /\ WF_vars(SendResponse \/ SendThrow)
  /\ WF_vars(BackfillRead)
  /\ WF_vars(BackfillDone \/ BackfillFail)
  /\ WF_vars(SrvReject \/ SrvStoreUser)
  /\ WF_vars(SrvReply)

\* The exchanges of send() alone, a lost request or response included.
SendSpec == Init /\ [][SendSteps]_vars /\ SendFairness

\* ------------------------------------------------- the endpoint alone
\* POST /api/chat by the authenticated caller with any chatId in the body:
\* none, a chat of the caller, a chat of another user, an id of no chat.
RequestChats == {NoChat, 1, 2, ForeignChat, MissingChat}

\* A request arrives while the endpoint is idle.
ApiCall(c, content) ==
  /\ send.pc = "idle"
  /\ srv.pc = "idle"
  /\ Len(rows) < Len(History) + 2 * MaxCalls
  /\ srv' = [IdleSrv EXCEPT !.pc = "req", !.chat = c, !.content = content]
  /\ UNCHANGED <<partnerVars, analysisVars>>
  /\ UNCHANGED <<messages, chatId, sending, pendingAnalysis, channelReady, subChat,
                 feed, loads, picked, send, nSent, rows, nChats, nAnalyses, last>>

\* The response has been sent.
ApiDone ==
  /\ send.pc = "idle"
  /\ srv.pc = "done"
  /\ srv' = IdleSrv
  /\ UNCHANGED <<partnerVars, analysisVars>>
  /\ UNCHANGED <<messages, chatId, sending, pendingAnalysis, channelReady, subChat,
                 feed, loads, picked, send, nSent, rows, nChats, nAnalyses, last>>

ApiNext ==
  \/ \E c \in RequestChats, content \in Contents : ApiCall(c, content)
  \/ SrvReject
  \/ SrvStoreUser
  \/ SrvReply
  \/ \E i \in DOMAIN rows, a \in Angers : SrvAnalyze(i, a)
  \/ ApiDone

\* The endpoint serving requests of the caller, whatever chatId they carry.
ApiSpec == Init /\ [][ApiNext]_vars

\* ------------------------------------------------------ partner links
\* POST /api/partners of user u, one action per await of the handler and per
\* statement of link_partners.  The store runs link_partners as one
\* transaction at the default isolation level: each statement reads what is
\* committed when it starts, an UPDATE locks its row until the transaction
\* ends and waits while another transaction holds that lock, and the writes
\* of a transaction become visible when it commits.
HasPartner(u) == profiles[u] # NoUser

LinkTo(u, pc) == [links EXCEPT ![u].pc = pc]

LinkEnd(u) == [links EXCEPT ![u] = IdleLink]

\* The transaction of u holds the lock of the profiles row r.
Holds(u, r) ==
  \/ links[u].pc \in {"updB", "commit"} /\ r = u
  \/ links[u].pc = "commit" /\ r = links[u].target

Locked(r, u) == \E v \in Users \ {u} : Holds(v, r)

\* The request arrives with partnerId t in its body.
LinkStart(u, t) ==
  /\ links[u].pc = "idle"
  /\ t # u
  /\ links' = [links EXCEPT ![u] = [pc |-> "self", target |-> t]]
  /\ UNCHANGED <<profiles, serviceRole>>
  /\ UNCHANGED <<chatVars, analysisVars>>

\* select partner_id where user_id = userId; 500 on error, 400 "You already
\* have a partner".
LinkCheckSelf(u) ==
  /\ links[u].pc = "self"
  /\ \E selfErr \in BOOLEAN :
       links' = IF selfErr \/ HasPartner(u) THEN LinkEnd(u) ELSE LinkTo(u, "partner")
  /\ UNCHANGED <<profiles, serviceRole>>
  /\ UNCHANGED <<chatVars, analysisVars>>

\* select partner_id where user_id = partnerId; 500 on error, 400 "Partner
\* already linked"; then the choice of the write path.
LinkCheckPartner(u) ==
  /\ links[u].pc = "partner"
  /\ \E partnerErr \in BOOLEAN :
       links' = IF partnerErr \/ HasPartner(links[u].target) THEN LinkEnd(u)
                ELSE LinkTo(u, IF serviceRole THEN "rpcA" ELSE "direct")
  /\ UNCHANGED <<profiles, serviceRole>>
  /\ UNCHANGED <<chatVars, analysisVars>>

\* Without the service role: update profiles set partner_id = partnerId
\* where user_id = userId, and the 200 response.
LinkDirect(u) ==
  /\ links[u].pc = "direct"
  /\ profiles' = [profiles EXCEPT ![u] = links[u].target]
  /\ links' = LinkEnd(u)
  /\ UNCHANGED serviceRole
  /\ UNCHANGED <<chatVars, analysisVars>>

\* link_partners: if exists (... user_id = a and partner_id is not null)
\* raise exception.
RpcCheckA(u) ==
  /\ links[u].pc = "rpcA"
  /\ links' = IF HasPartner(u) THEN LinkEnd(u) ELSE LinkTo(u, "rpcB")
  /\ UNCHANGED <<profiles, serviceRole>>
  /\ UNCHANGED <<chatVars, analysisVars>>

\* link_partners: if exists (... user_id = b and partner_id is not null)
\* raise exception.
RpcCheckB(u) ==
  /\ links[u].pc = "rpcB"
  /\ links' = IF HasPartner(links[u].target) THEN LinkEnd(u) ELSE LinkTo(u, "updA")
  /\ UNCHANGED <<profiles, serviceRole>>
  /\ UNCHANGED <<chatVars, analysisVars>>

\* link_partners: update profiles set partner_id = b where user_id = a.
RpcUpdateA(u) ==
  /\ links[u].pc = "updA"
  /\ ~Locked(u, u)
  /\ links' = LinkTo(u, "updB")
  /\ UNCHANGED <<profiles, serviceRole>>
  /\ UNCHANGED <<chatVars, analysisVars>>

\* link_partners: update profiles set partner_id = a where user_id = b.
RpcUpdateB(u) ==
  /\ links[u].pc = "updB"
  /\ ~Locked(links[u].target, u)
  /\ links' = LinkTo(u, "commit")
  /\ UNCHANGED <<profiles, serviceRole>>
  /\ UNCHANGED <<chatVars, analysisVars>>

\* link_partners returns: the transaction commits both updates, and the
\* handler answers 200.
RpcCommit(u) ==
  /\ links[u].pc = "commit"
  /\ profiles' = [profiles EXCEPT ![u] = links[u].target, ![links[u].target] = u]
  /\ links' = LinkEnd(u)
  /\ UNCHANGED serviceRole
  /\ UNCHANGED <<chatVars, analysisVars>>

\* Two transactions each wait for the row the other has locked: the store
\* aborts one of them, and the handler answers 500.
RpcDeadlock(u) ==
  /\ links[u].pc = "updB"
  /\ \E v \in Users \ {u} :
       /\ links[v].pc = "updB"
       /\ Holds(v, links[u].target)
       /\ Holds(u, links[v].target)
  /\ links' = LinkEnd(u)
  /\ UNCHANGED <<profiles, serviceRole>>
  /\ UNCHANGED <<chatVars, analysisVars>>

PartnerNext ==
  \/ \E u \in Users, t \in Users : LinkStart(u, t)
  \/ \E u \in Users : LinkCheckSelf(u)
  \/ \E u \in Users : LinkCheckPartner(u)
  \/ \E u \in Users : LinkDirect(u)
  \/ \E u \in Users : RpcCheckA(u)
  \/ \E u \in Users : RpcCheckB(u)
  \/ \E u \in Users : RpcUpdateA(u)
  \/ \E u \in Users : RpcUpdateB(u)
  \/ \E u \in Users : RpcCommit(u)
  \/ \E u \in Users : RpcDeadlock(u)

\* The deployment has the service-role key or not; nobody has a partner.
PartnerInit ==
  /\ InitChat(History)
  /\ InitPartners
  /\ serviceRole \in BOOLEAN
  /\ InitAnalysis

\* Link requests of the users, in any interleaving.
PartnerSpec == PartnerInit /\ [][PartnerNext]_vars

\* ------------------------------------------------- analyzeAnger alone
\* analyzeAnger is called and the model returns c.
AnalyzeCall(c) ==
  /\ angerAnalysis # NoResult \/ completion = NoCompletion
  /\ completion' = c
  /\ angerAnalysis' = NoResult
  /\ UNCHANGED <<chatVars, partnerVars>>

\* analyzeAnger returns.
AnalyzeReturn ==
  /\ completion # NoCompletion
  /\ angerAnalysis = NoResult
  /\ angerAnalysis' = analyzeAnger(completion)
  /\ UNCHANGED completion
  /\ UNCHANGED <<chatVars, partnerVars>>

AnalysisNext ==
  \/ \E c \in Completions : AnalyzeCall(c)
  \/ AnalyzeReturn

\* analyzeAnger applied to every content of Completions.
AnalysisSpec == Init /\ [][AnalysisNext]_vars

\* ================================================================ claims
Count(msgs, id) == Cardinality({i \in DOMAIN msgs : msgs[i].id = id})

DeliverInsert == \E ev \in feed : ev.type = "INSERT" /\ Deliver(ev)

DeliverAny == \E ev \in feed : Deliver(ev)

\* C1: the list never holds two entries with the same durable id, whatever
\* the interleaving of load, submit, response, failure, feed events
\* (redelivered, in any order) and backfill.
NoDuplicateDisplay ==
  \A i, j \in DOMAIN messages :
    (messages[i].id.k = "uuid" /\ messages[i].id = messages[j].id) => i = j

\* C1 witness: an INSERT event was delivered again for a row the list
\* already shows, after the send that stored it has finished.
NoDuplicateWitness ==
  /\ last.op = "INSERT" /\ last.path = "dup"
  /\ send.pc = "idle" /\ nSent > 0
  /\ Count(messages, last.id) = 1

\* C2: whenever a durable id X that has an entry in the pending table
\* becomes known in the list by the response's id swap or by a feed INSERT
\* (upgrade or append), the entry of X carries the pending annotation and X
\* has left the pending table.
PendingFlushed ==
  [][ (SendResponse \/ DeliverInsert) =>
        \A x \in DOMAIN pendingAnalysis :
          (x \notin Ids(messages) /\ x \in Ids(messages')) =>
            /\ x \notin DOMAIN pendingAnalysis'
            /\ \A i \in DOMAIN messages' :
                 messages'[i].id = x => messages'[i].analysis = pendingAnalysis[x]
    ]_vars

\* The conversation a running Submit belongs to: the one the endpoint stored
\* its rows under, else the one it was issued with.
SubmitChat == IF srv.out # NoChat THEN srv.out ELSE send.chat

\* C3: a Submit or Backfill that resolves after the active conversation has
\* become another one than its own leaves the list unchanged.
StaleDiscarded ==
  [][ /\ ((SendResponse \/ SendThrow) /\ chatId # NoChat /\ chatId # SubmitChat)
           => messages' = messages
      /\ (BackfillDone /\ chatId # send.final) => messages' = messages
    ]_vars

\* C4: every failed Submit, by a throw or by a JSON error body, appends the
\* locally synthesized assistant error entry.
FailureSurfaced ==
  [][ ((SendResponse /\ srv.kind = "error") \/ SendThrow) =>
        /\ Len(messages') = Len(messages) + 1
        /\ messages'[Len(messages')] = ErrMsg(nSent)
    ]_vars

\* C5: when a handler upgrades a temporary id (response, feed INSERT or
\* feed UPDATE), the entry keeps its index, role and content, every other
\* entry is unchanged at its index, and nothing is removed; only the response
\* handler may, besides, append the assistant reply at the end.
PositionStable ==
  [][ (SendResponse \/ DeliverAny) =>
        \A i \in DOMAIN messages :
          (isTempId(messages[i].id) /\ messages[i].id \notin Ids(messages')) =>
            /\ i \in DOMAIN messages'
            /\ HasDash(messages'[i].id)
            /\ messages'[i].role = messages[i].role
            /\ messages'[i].content = messages[i].content
            /\ \A j \in DOMAIN messages : j # i => messages'[j] = messages[j]
            /\ Len(messages') <= Len(messages) + 1
            /\ DeliverAny => Len(messages') = Len(messages)
    ]_vars

\* C5 witness: a feed INSERT upgraded an entry that is neither first nor
\* last in the list.
PositionStableWitness ==
  /\ last.op = "INSERT" /\ last.path = "upgrade"
  /\ LET i == findIndex(messages, last.id) IN 1 < i /\ i < Len(messages)

\* Rows the endpoint stored in this session.
InSession(k) == k \in DOMAIN rows /\ k > Len(History)

UniqueContent(k) ==
  \A q \in DOMAIN rows :
    (rows[q].role = "user" /\ rows[q].content = rows[k].content) => q = k

\* The user row an assistant row answers: the last user row stored before
\* it in its chat.
ReplyTo(k) ==
  Max({q \in 1..(k - 1) : rows[q].role = "user" /\ rows[q].chat = rows[k].chat})

Pos(k) == findIndex(messages, rows[k].id)

\* C6: the user messages stored in this session are listed in the order
\* they were submitted, and each is listed before the reply to it (stated
\* for messages whose content no other user row shares, so that an id names
\* one message).
CausalOrder ==
  /\ \A k, l \in DOMAIN rows :
       ( /\ InSession(k) /\ InSession(l) /\ k < l
         /\ rows[k].role = "user" /\ rows[l].role = "user"
         /\ UniqueContent(k) /\ UniqueContent(l)
         /\ Pos(k) > 0 /\ Pos(l) > 0 ) => Pos(k) < Pos(l)
  /\ \A a \in DOMAIN rows :
       ( /\ InSession(a) /\ rows[a].role = "assistant"
         /\ UniqueContent(ReplyTo(a))
         /\ Pos(a) > 0 /\ Pos(ReplyTo(a)) > 0 ) => Pos(ReplyTo(a)) < Pos(a)

\* C7: a feed INSERT for the row of the running Submit, processed while the
\* temporary entry is in the list, upgrades that entry in place; and a
\* response that arrives when the durable id is already in the list and the
\* temporary id is gone leaves exactly one entry with the durable id.
FeedBeforeResponse ==
  [][ /\ \A ev \in feed :
           ( /\ Deliver(ev) /\ ev.type = "INSERT" /\ ev.row.chat = subChat
             /\ send.pc = "awaitResp" /\ ev.row.id = srv.uid
             /\ send.tmp \in Ids(messages) /\ srv.uid \notin Ids(messages) ) =>
             LET i == findIndex(messages, send.tmp)
             IN /\ Len(messages') = Len(messages)
                /\ messages'[i].id = srv.uid
                /\ messages'[i].content = messages[i].content
                /\ \A j \in DOMAIN messages : j # i => messages'[j] = messages[j]
      /\ ( /\ SendResponse /\ srv.kind = "ok"
           /\ srv.uid \in Ids(messages) /\ send.tmp \notin Ids(messages) ) =>
             /\ Count(messages', srv.uid) = 1
             /\ send.tmp \notin Ids(messages')
    ]_vars

\* C7 witness: the feed INSERT has upgraded the temporary entry of the
\* running Submit and the endpoint's response is ready to be processed.
FeedBeforeResponseWitness ==
  /\ last.op = "INSERT" /\ last.path = "upgrade"
  /\ send.pc = "awaitResp" /\ srv.pc = "done" /\ srv.kind = "ok"
  /\ last.id = srv.uid
  /\ Count(messages, srv.uid) = 1 /\ send.tmp \notin Ids(messages)

\* C8: a successful response processed while the temporary entry is still
\* the last entry (nothing was appended or replaced since Submit) turns
\* that entry into the user entry with the durable id and puts the
\* assistant entry right after it; the temporary id is gone.
SubmitOutcome ==
  [][ ( /\ SendResponse /\ srv.kind = "ok"
        /\ messages[Len(messages)].id = send.tmp ) =>
        LET n == Len(messages)
        IN /\ Len(messages') = n + 1
           /\ SubSeq(messages', 1, n - 1) = SubSeq(messages, 1, n - 1)
           /\ messages'[n].id = srv.uid
           /\ messages'[n].role = "user"
           /\ messages'[n].content = send.content
           /\ messages'[n + 1] = ChatMessage(srv.aid, "assistant", ReplyText, NoAnalysis)
           /\ send.tmp \notin Ids(messages')
    ]_vars

\* C8 witness: the response swapped the id and appended the reply, and the
\* list ends with the user entry followed by the assistant entry.
SubmitOutcomeWitness ==
  /\ last.op = "SendResponse" /\ last.path = "swap" /\ last.n = 1
  /\ Len(messages) >= 3
  /\ messages[Len(messages) - 1].id = last.id
  /\ messages[Len(messages) - 1].role = "user"
  /\ messages[Len(messages)].role = "assistant"

\* The UPDATE events the feed can carry: a user row of the store (the ids
\* the list and the pending table hold under "uuid" are ids of store rows)
\* in its chat, with any content and with or without a score.
UpdateEvents ==
  { Event("UPDATE", Row(r.id, r.chat, "user", content, a)) :
      r \in {rows[k] : k \in {j \in DOMAIN rows : rows[j].role = "user"}},
      content \in Contents \cup {"earlier"},
      a \in {NoAnalysis, 1, 3} }

\* C9: processing an UPDATE event twice in a row leaves the same list and
\* the same pending table as processing it once.
UpdateIdempotent ==
  \A ev \in UpdateEvents :
    \A once \in {OnChange(messages, pendingAnalysis, subChat, ev)} :
      \A twice \in {OnChange(once.msgs, once.pend, subChat, ev)} :
        twice.msgs = once.msgs /\ twice.pend = once.pend

\* C9 witness: an UPDATE event was processed for an entry that already
\* carried the event's annotation.
UpdateIdempotentWitness ==
  /\ last.op = "UPDATE" /\ last.path = "same"
  /\ \E i \in DOMAIN messages :
       messages[i].id = last.id /\ messages[i].analysis # NoAnalysis

\* C10: the backfill merge keeps every entry at its index and puts the
\* entries it adds after them, in the order of the rows the store returned.
BackfillOrder ==
  [][ BackfillDone =>
        /\ Len(messages') >= Len(messages)
        /\ \A i \in DOMAIN messages : messages'[i] = messages[i]
        /\ \A i \in (Len(messages) + 1)..Len(messages') :
             findIndex(send.recent, messages'[i].id) > 0
        /\ \A i, j \in (Len(messages) + 1)..Len(messages') :
             i < j => findIndex(send.recent, messages'[i].id)
                        < findIndex(send.recent, messages'[j].id)
    ]_vars

\* C10 witness: a backfill merge added at least two entries behind at least
\* two existing ones.
BackfillOrderWitness ==
  /\ last.op = "BackfillDone" /\ last.n >= 2
  /\ Len(messages) >= last.n + 2

\* The optimistic entry of the n-th Submit is gone and a user entry with a
\* durable id shows a submitted text.
Durable(n) ==
  /\ MkId("tmp", n) \notin Ids(messages)
  /\ \E i \in DOMAIN messages :
       /\ messages[i].role = "user"
       /\ messages[i].id.k = "uuid"
       /\ messages[i].content \in Contents

\* C11: under fair scheduling of the endpoint, the response and the feed,
\* every optimistic user message appended by Submit is eventually, and from
\* then on for ever, listed under a durable id and not under its temporary
\* id.
EventuallyDurable ==
  \A n \in 1..MaxSends : [](nSent >= n => <>[]Durable(n))

\* A Submit is answered with a failure: the request threw, or the endpoint
\* answered with an error body.
SubmitFails == SendThrow \/ (SendResponse /\ srv.kind = "error")

\* C12: handling the failure of a Submit rolls nothing back: every entry,
\* the optimistic entry of that Submit included, is afterwards at the index
\* it had, with the same id, role and content.
NoRollback ==
  [][ SubmitFails =>
        /\ \A i \in DOMAIN messages :
             i \in DOMAIN messages' /\ messages'[i] = messages[i]
        /\ send.tmp \in Ids(messages) =>
             /\ findIndex(messages', send.tmp) = findIndex(messages, send.tmp)
             /\ messages'[findIndex(messages', send.tmp)].content = send.content
    ]_vars

\* C12 witness: a request threw, the error entry was appended and the
\* optimistic entry of that Submit is still listed before it.
NoRollbackWitness ==
  /\ last.op = "SendThrow"
  /\ findIndex(messages, MkId("tmp", nSent)) > 1
  /\ findIndex(messages, MkId("tmp", nSent)) < Len(messages)
  /\ messages[Len(messages)] = ErrMsg(nSent)

\* C13: a history load whose store read returns an error leaves the list,
\* the pending table and the active conversation as they were.
LoadFailsSoft ==
  [][ (\E l \in loads : LoadFail(l)) =>
        UNCHANGED <<messages, pendingAnalysis, chatId>> ]_vars

\* C13 witness: a load failed while the list held more than the pinned
\* entry and the pending table held an annotation.
LoadFailsSoftWitness ==
  /\ last.op = "LoadFail"
  /\ Len(messages) > 1
  /\ DOMAIN pendingAnalysis # {}

\* The k most recent rows of a result in creation order.
LastK(s, k) == IF Len(s) <= k THEN s ELSE SubSeq(s, Len(s) - k + 1, Len(s))

\* C14: after the backfill merge, each of the BackfillLimit most recent rows
\* of the conversation is in the list; in particular the row a Submit has
\* just stored, when the feed did not deliver it.
BackfillWindow ==
  [][ BackfillDone =>
        LET recent == LastK(SelectChat(rows, send.final), BackfillLimit)
        IN \A i \in DOMAIN recent : recent[i].id \in Ids(messages')
    ]_vars

\* C15: after the backfill merge every row the backfill read is in the
\* list, and a row whose annotation UPDATE the registered handler will not
\* receive (it was emitted before the channel joined) shows the annotation
\* the store holds, also when its entry was already listed without one.
BackfillCovers ==
  [][ BackfillDone =>
        \A i \in DOMAIN send.recent :
          \E j \in DOMAIN messages' :
            /\ messages'[j].id = send.recent[i].id
            /\ ( /\ send.recent[i].analysis # NoAnalysis
                 /\ Event("UPDATE", send.recent[i]) \notin feed ) =>
                 messages'[j].analysis = send.recent[i].analysis
    ]_vars

\* C16: an UPDATE event of the active conversation with a numeric
\* annotation is applied to the entry that has the row's id; failing that,
\* to the last user entry with the row's content and no annotation, which
\* also takes the row's id; failing that, the list is unchanged and the
\* annotation is stored in the pending table under the row's id.
UpdateMatching ==
  \A ev \in UpdateEvents :
    (ev.row.chat = subChat /\ ev.row.analysis # NoAnalysis) =>
      \A r \in {OnChange(messages, pendingAnalysis, subChat, ev)} :
      LET row == ev.row
          byId == {i \in DOMAIN messages : messages[i].id = row.id}
          byContent == {i \in DOMAIN messages :
                          /\ messages[i].role = "user"
                          /\ messages[i].content = row.content
                          /\ messages[i].analysis = NoAnalysis}
          target == IF byId # {} THEN Min(byId) ELSE Max(byContent)
      IN IF byId # {} \/ byContent # {}
         THEN /\ r.pend = pendingAnalysis
              /\ Len(r.msgs) = Len(messages)
              /\ \A k \in DOMAIN messages : k # target => r.msgs[k] = messages[k]
              /\ r.msgs[target].id = row.id
              /\ r.msgs[target].analysis = row.analysis
              /\ r.msgs[target].role = messages[target].role
              /\ r.msgs[target].content = messages[target].content
         ELSE /\ r.msgs = messages
              /\ DOMAIN r.pend = DOMAIN pendingAnalysis \cup {row.id}
              /\ r.pend[row.id] = row.analysis
              /\ \A x \in DOMAIN pendingAnalysis :
                   x # row.id => r.pend[x] = pendingAnalysis[x]

\* C16 witness: an UPDATE was applied by content to the later of two user
\* entries with that content and no annotation.
UpdateMatchingWitness ==
  /\ last.op = "UPDATE" /\ last.path = "byContent"
  /\ LET j == findIndex(messages, last.id)
     IN /\ j > 0
        /\ \E i \in 1..(j - 1) :
             /\ messages[i].role = "user"
             /\ messages[i].content = messages[j].content
             /\ messages[i].analysis = NoAnalysis

\* The user-role INSERT events the feed can carry: a row id of the store or
\* one it has not issued yet, either chat, any content.
InsertEvents ==
  { Event("INSERT", Row(id, c, "user", content, NoAnalysis)) :
      id \in {rows[k].id : k \in DOMAIN rows} \cup {MkId("uuid", Len(rows) + 1)},
      c \in {1, nChats},
      content \in Contents \cup {"earlier"} }

\* C17: a user-role INSERT of the active conversation whose id is not in
\* the list upgrades the entry of greatest index among the user entries
\* with a temporary id and the row's content, and no other entry; without
\* such an entry the row is appended as a new entry.
InsertTieBreak ==
  \A ev \in InsertEvents :
    (ev.row.chat = subChat /\ ev.row.id \notin Ids(messages)) =>
      \A r \in {OnChange(messages, pendingAnalysis, subChat, ev)} :
      LET row == ev.row
          S == {i \in DOMAIN messages : /\ messages[i].role = "user"
                                        /\ ~HasDash(messages[i].id)
                                        /\ messages[i].content = row.content}
          n == Len(messages)
      IN IF S # {}
         THEN /\ Len(r.msgs) = n
              /\ \A k \in DOMAIN messages : k # Max(S) => r.msgs[k] = messages[k]
              /\ r.msgs[Max(S)].id = row.id
              /\ r.msgs[Max(S)].role = "user"
              /\ r.msgs[Max(S)].content = row.content
         ELSE /\ Len(r.msgs) = n + 1
              /\ SubSeq(r.msgs, 1, n) = messages
              /\ r.msgs[n + 1] = ChatMessage(row.id, "user", row.content, NoAnalysis)

\* C17 witness: an INSERT upgraded the later of two user entries with a
\* temporary id and the row's content; the earlier one kept its id.
InsertTieBreakWitness ==
  /\ last.op = "INSERT" /\ last.path = "upgrade"
  /\ LET j == findIndex(messages, last.id)
     IN /\ j > 0
        /\ \E i \in 1..(j - 1) :
             /\ messages[i].role = "user"
             /\ messages[i].id.k = "tmp"
             /\ messages[i].content = messages[j].content

\* C18: the assistant reply is listed once.  A successful response appends
\* the reply at the end when its id is not listed and adds no entry when it
\* is; an INSERT for an assistant row of the active conversation appends it
\* when its id is not listed and leaves the list unchanged when it is.
AssistantOnce ==
  [][ /\ (SendResponse /\ srv.kind = "ok") =>
           /\ Count(messages', srv.aid) = 1
           /\ IF srv.aid \in Ids(messages)
              THEN Len(messages') = Len(messages)
              ELSE /\ Len(messages') = Len(messages) + 1
                   /\ messages'[Len(messages')] =
                        ChatMessage(srv.aid, "assistant", ReplyText, NoAnalysis)
      /\ \A ev \in feed :
           ( /\ Deliver(ev) /\ ev.type = "INSERT"
             /\ ev.row.role = "assistant" /\ ev.row.chat = subChat ) =>
             IF ev.row.id \in Ids(messages)
             THEN messages' = messages
             ELSE messages' = Append(messages,
                    ChatMessage(ev.row.id, "assistant", ev.row.content, NoAnalysis))
    ]_vars

\* C18 witness: a successful response was processed after the feed had
\* appended the reply, and added no entry.
AssistantOnceWitness ==
  /\ last.op = "SendResponse" /\ last.path = "swap" /\ last.n = 0
  /\ \E i \in DOMAIN messages :
       messages[i].role = "assistant" /\ messages[i].id.k = "uuid"

\* The events the registered handler has to discard: a row of another
\* conversation, or no row.
ForeignEvents ==
  { Event(t, [rows[k] EXCEPT !.chat = c]) :
      t \in {"INSERT", "UPDATE"}, k \in DOMAIN rows,
      c \in (0..(nChats + 1)) \ {subChat} }
  \cup { Event(t, NoRow) : t \in {"INSERT", "UPDATE", "DELETE"} }

\* C19: an event whose row belongs to another conversation than the one
\* the handler was registered for, or that carries no row, changes neither
\* the list nor the pending table.
ConversationFilter ==
  subChat # NoChat =>
    \A ev \in ForeignEvents :
      \A r \in {OnChange(messages, pendingAnalysis, subChat, ev)} :
        r.msgs = messages /\ r.pend = pendingAnalysis

\* C19 witness: the handler received an event of another conversation
\* while the list held an optimistic entry with the row's content.
ConversationFilterWitness ==
  /\ last.path = "filtered"
  /\ last.op \in {"INSERT", "UPDATE"}
  /\ \E i \in DOMAIN messages : messages[i].id.k = "tmp"

\* C20: a successful history load sets the list to the pinned entry
\* followed by the rows it read, in their order, whatever the list held;
\* loading the same rows again gives the same list.
LoadReplaces ==
  [][ \A l \in loads :
        LoadDone(l) =>
          /\ Len(messages') = Len(l.data) + 1
          /\ messages'[1] = ChatMessage(SysId, "system", SysText, NoAnalysis)
          /\ \A i \in DOMAIN l.data :
               /\ messages'[i + 1].id = l.data[i].id
               /\ messages'[i + 1].role = l.data[i].role
               /\ messages'[i + 1].content = l.data[i].content
               /\ messages'[i + 1].analysis = l.data[i].analysis
          /\ OnLoad(messages', FALSE, l.data) = messages'
    ]_vars

\* C20 witness: a load completed while a Submit was in flight and replaced
\* a list that held the optimistic entry.
LoadReplacesWitness ==
  /\ last.op = "LoadDone"
  /\ send.pc = "awaitResp"
  /\ send.tmp \notin Ids(messages)
  /\ Len(messages) > 1

\* C21: no dual subscription.  The one registered handler is always the one
\* of the active conversation id; a step that changes the id removes the
\* previous channel (its events in flight are dropped, the new channel has
\* not joined yet) as it creates the new one; and every event is handled by
\* the handler of the conversation id that is active at that moment.
NoDualSubscription ==
  [][ /\ subChat' = chatId'
      /\ (chatId' # chatId => feed' = {} /\ ~channelReady')
      /\ (DeliverAny => subChat = chatId) ]_vars

\* The active conversation has changed from the picked chat 1 (whose history
\* load is still outstanding) to the adopted chat 2, and the handler has
\* handled an INSERT of chat 2 since.
NoDualSubscriptionWitness ==
  /\ chatId = 2
  /\ subChat = 2
  /\ \E l \in loads : l.chat = 1
  /\ last.op = "INSERT"
  /\ last.path # "filtered"

\* C22: conversation adoption.  When the response of a Submit that was issued
\* with no active conversation id carries a conversation id, that id is the
\* active one after the response is processed; when the Submit was issued
\* with a conversation id, processing the response leaves the active id as
\* it is.
ConversationAdoption ==
  [][SendResponse =>
       /\ (send.chat = NoChat /\ ResponseData.chatId # NoChat
             => chatId' = ResponseData.chatId)
       /\ (send.chat # NoChat => chatId' = chatId)]_vars

\* A response has been processed whose Submit was issued before the chat
\* lookup resolved: chat 1 was picked meanwhile, and the chat 2 the endpoint
\* created has been adopted.
ConversationAdoptionWitness ==
  /\ last.op = "SendResponse"
  /\ last.path # "error"
  /\ send.pc = "backfillRead"
  /\ send.chat = NoChat
  /\ chatId = 2
  /\ \E l \in loads : l.chat = 1

\* C23: server-side conversation ownership.  Every stored row is in a chat
\* of the caller; a request whose chatId names no chat or a chat of another
\* user gets a new chat of the caller, in which its user message is stored;
\* and the assistant message is stored in the chat of the user message.
ChatOwnership ==
  /\ [](\A i \in DOMAIN rows : ChatOwner(rows[i].chat) = Caller)
  /\ [][ /\ (SrvStoreUser /\ ChatOwner(srv.chat) # Caller =>
               /\ nChats' = nChats + 1
               /\ srv'.out = nChats'
               /\ rows' = Append(rows, Row(srv'.uid, nChats', "user", srv.content,
                                           NoAnalysis)))
         /\ (SrvReply => /\ Len(rows') = Len(rows) + 1
                         /\ rows'[Len(rows')].chat = srv.out
                         /\ rows'[Len(rows')].role = "assistant"
                         /\ \A i \in DOMAIN rows : rows'[i] = rows[i]) ]_vars

\* A request that named the chat of another user has been answered: both its
\* rows are in a chat created for it.
ChatOwnershipWitness ==
  /\ srv.pc = "done"
  /\ srv.kind = "ok"
  /\ srv.chat = ForeignChat
  /\ srv.out = nChats
  /\ nChats > 1
  /\ rows[Len(rows)].chat = srv.out
  /\ rows[Len(rows) - 1].chat = srv.out

\* C24: one partner at a time under concurrency.  No user is the partner_id
\* of two different users; a partner_id that is set is never changed by a
\* link; and a link is written only when neither the caller nor the target
\* has a partner at that moment.
OnePartner ==
  /\ [](\A u \in Users, v \in Users :
          (u # v /\ HasPartner(u)) => profiles[u] # profiles[v])
  /\ [][ /\ \A u \in Users : HasPartner(u) => profiles'[u] = profiles[u]
         /\ \A u \in Users :
              (LinkDirect(u) \/ RpcCommit(u)) =>
                (~HasPartner(u) /\ ~HasPartner(links[u].target)) ]_vars

\* C25: durable ids are stable.  An entry that has a store id keeps that id,
\* at its position, through every response, every INSERT or UPDATE event
\* and every backfill merge.
DurableIdsStable ==
  [][(DeliverAny \/ SendResponse \/ BackfillDone) =>
       \A i \in DOMAIN messages :
         messages[i].id.k = "uuid" =>
           /\ i \in DOMAIN messages'
           /\ messages'[i].id = messages[i].id]_vars

UserHas(msgs, c) ==
  \E i \in DOMAIN msgs : msgs[i].role = "user" /\ msgs[i].content = c

\* C26: submitted messages are never lost.  The stored history holds no
\* message with a content of Contents, so a user entry with such a content
\* stems from a Submit; once the list holds one, every later list holds one.
SubmittedKept ==
  [][\A c \in Contents : UserHas(messages, c) => UserHas(messages', c)]_vars

\* C27: client and server agree on the conversation.  When the response of a
\* request the endpoint answered with 200 has been processed, the active
\* conversation id is the chat in which the endpoint stored the user and the
\* assistant message.
ClientServerAgree ==
  [][(SendResponse /\ srv.kind = "ok") => chatId' = srv.out]_vars

\* C28: single Submit in flight.  A call of send() while sending is true, or
\* with an input that is empty after trimming, changes nothing: no step that
\* changes the state is such a call, and the number of submits grows only
\* from a state where sending is false.  And whenever sending is true it
\* is eventually false again, whether the exchange succeeds, returns an
\* error body or throws.
SingleSubmit ==
  /\ [][ /\ \A input \in Inputs :
              (sending \/ Trim(input) = "") => ~Send(input)
         /\ (nSent' # nSent => ~sending /\ sending') ]_vars
  /\ (sending ~> ~sending)

\* A second Submit has started after the first one threw and reset sending.
SingleSubmitWitness ==
  /\ sending
  /\ nSent = 2
  /\ send.pc = "awaitResp"
  /\ \E i \in DOMAIN messages : messages[i].id = MkId("err", 1)

\* C29: pinned system entry.  The first element of the list is always the
\* local system entry with id 'sys', and no step changes it.
PinnedSystemEntry ==
  /\ [](Len(messages) >= 1 /\ messages[1] = SysMsg)
  /\ [][ /\ messages # <<>>
         /\ messages' # <<>>
         /\ messages'[1] = messages[1] ]_vars

\* The list has been through a history load (the first stored row is
\* listed), a submit, its response and a backfill merge, with the system
\* entry still in front.
PinnedSystemEntryWitness ==
  /\ messages[1] = SysMsg
  /\ Len(messages) >= 4
  /\ last.op = "BackfillDone"
  /\ loads = {}
  /\ \E i \in DOMAIN messages : messages[i].id = MkId("uuid", 1)

IsInteger(x) == x.t = "number" /\ x.v % Scale = 0

\* C30: bounded anger score.  For every model output analyzeAnger returns
\* an integer between 1 and 5; an integer output below 1 or above 5 is
\* clamped to the nearest bound, an integer output in range is returned as
\* it is, and content that does not parse, or that holds no anger value or
\* one that is not a number, yields 1.
BoundedAnger ==
  (completion # NoCompletion /\ angerAnalysis # NoResult) =>
    LET a == AngerOf(completion)
    IN /\ IsInteger(angerAnalysis)
       /\ Num(1).v <= angerAnalysis.v
       /\ angerAnalysis.v <= Num(5).v
       /\ (completion.parses /\ IsInteger(a)) =>
            angerAnalysis =
              IF a.v < Num(1).v THEN Num(1) ELSE IF a.v > Num(5).v THEN Num(5) ELSE a
       /\ (~completion.parses \/ a.t \in {"undefined", "null", "text"}) =>
            angerAnalysis = Num(1)

====
